---- MODULE Spec2Model ----
(***************************************************************************)
(* Model of the confidential order book of encrypted-ixs/src/lib.rs: the   *)
(* OrderBook value (two fixed arrays of 10 orders, two counts, the id      *)
(* counter), its insert and cancel operations, compaction and the          *)
(* matching loop.  Arrays are functions on 0..Capacity-1, so the slots at  *)
(* indices >= count keep whatever the code left in them.                   *)
(*                                                                         *)
(* order_id and trader_id are u128 and price, quantity and timestamp are   *)
(* u64 in the source.  The values the model feeds in are far below those   *)
(* widths and the id counter is capped by MaxOrders, so no addition of     *)
(* the model reaches a wrap-around.                                        *)
(***************************************************************************)
EXTENDS Integers, Sequences, FiniteSets

VARIABLES
    book,     \* the OrderBook the caller holds
    prev,     \* the OrderBook before the last operation
    last,     \* the last operation: its arguments and what it returned
    issued,   \* every order_id handed out so far, oldest first, with its side
    cancelled, \* the order_ids a cancel has reported found
    chain,    \* the on-chain program: the trading pair and its computations
    settlement \* the token accounts of a trade and the last execute_trade

vars == <<book, prev, last, issued, cancelled, chain, settlement>>

-----------------------------------------------------------------------------
(* Program constants *)

Capacity == 10     \* [Order; 10], the loop bounds 0..10
TradeCap == 5      \* [Trade; 5], trade_count < 5

(* Bounds of the model *)

MaxOrders  == 3    \* ids issued in Spec
MaxSubmits == 12   \* ids issued in SpecFill
MaxRefills == 2    \* ids issued in SpecFull on top of the input book
MaxComputations == 2   \* computations queued in SpecChain after the first
SmallSide  == 2    \* orders per side of a small input book of SpecMatch
MaxBuys    == 4    \* buys of a deep input book of SpecMatch
MaxSells   == 3    \* sells of a deep input book of SpecMatch
U64_MAX    == 15   \* u64::MAX of execute_trade, scaled down to a 4-bit word

Prices     == {1, 2}
Quantities == {1, 2}
Traders    == {1, 2}
CallerIds  == {99}      \* the order_id field as the caller sends it
OrderTimes == {1}       \* timestamp of a submitted order
MatchTimes == {5}       \* timestamp argument of match_orders

Slots == 0 .. (Capacity - 1)

-----------------------------------------------------------------------------
(* Value types *)

Order_new ==
    [order_id |-> 0, price |-> 0, quantity |-> 0, side |-> FALSE,
     trader_id |-> 0, timestamp |-> 0]

Trade_new ==
    [buyer_id |-> 0, seller_id |-> 0, price |-> 0, quantity |-> 0,
     timestamp |-> 0]

(* mutant: the id counter starts at 0 *)
OrderBook_new_from_zero ==
    [buy_orders    |-> [i \in 0 .. 9 |-> Order_new],
     buy_count     |-> 0,
     sell_orders   |-> [i \in 0 .. 9 |-> Order_new],
     sell_count    |-> 0,
     next_order_id |-> 0]

OrderBook_new ==
    [buy_orders    |-> [i \in Slots |-> Order_new],
     buy_count     |-> 0,
     sell_orders   |-> [i \in Slots |-> Order_new],
     sell_count    |-> 0,
     next_order_id |-> 1]

init_order_book == OrderBook_new

-----------------------------------------------------------------------------
(* OrderBook::add_buy_order / add_sell_order *)

(* mutant: the last free slot is refused *)
can_add_short(count) == count < Capacity - 1

can_add(count) == count < Capacity

(* mutant: the id counter is not advanced *)
add_buy_order_keep_id(b, order) ==
    IF b.buy_count < Capacity
    THEN [book |-> [b EXCEPT
                      !.buy_orders[b.buy_count] =
                          [order EXCEPT !.order_id = b.next_order_id],
                      !.buy_count = @ + 1],
          ok   |-> TRUE]
    ELSE [book |-> b, ok |-> FALSE]

(* mutant: the order keeps the order_id the caller sent *)
add_buy_order_caller_id(b, order) ==
    IF b.buy_count < Capacity
    THEN [book |-> [b EXCEPT
                      !.buy_orders[b.buy_count] = order,
                      !.next_order_id = @ + 1,
                      !.buy_count = @ + 1],
          ok   |-> TRUE]
    ELSE [book |-> b, ok |-> FALSE]

add_buy_order(b, order) ==
    IF can_add(b.buy_count)
    THEN [book |-> [b EXCEPT
                      !.buy_orders[b.buy_count] =
                          [order EXCEPT !.order_id = b.next_order_id],
                      !.next_order_id = @ + 1,
                      !.buy_count = @ + 1],
          ok   |-> TRUE]
    ELSE [book |-> b, ok |-> FALSE]

(* mutant: the id is taken before the capacity test *)
add_sell_order_eager(b, order) ==
    IF b.sell_count < Capacity
    THEN [book |-> [b EXCEPT
                      !.sell_orders[b.sell_count] =
                          [order EXCEPT !.order_id = b.next_order_id],
                      !.next_order_id = @ + 1,
                      !.sell_count = @ + 1],
          ok   |-> TRUE]
    ELSE [book |-> [b EXCEPT !.next_order_id = @ + 1], ok |-> FALSE]

add_sell_order(b, order) ==
    IF can_add(b.sell_count)
    THEN [book |-> [b EXCEPT
                      !.sell_orders[b.sell_count] =
                          [order EXCEPT !.order_id = b.next_order_id],
                      !.next_order_id = @ + 1,
                      !.sell_count = @ + 1],
          ok   |-> TRUE]
    ELSE [book |-> b, ok |-> FALSE]

(* submit_order: side = TRUE is a buy.  _success is dropped by the circuit; *)
(* the model keeps it in ok to state what the insertion reported.           *)
submit_order(order, b) ==
    IF order.side THEN add_buy_order(b, order) ELSE add_sell_order(b, order)

-----------------------------------------------------------------------------
(* OrderBook::cancel_order *)

(* mutant: a slot at or beyond the count is taken for an order *)
order_exists_always(count, i) == TRUE

(* i < self.buy_count, i < self.sell_count *)
order_exists(count, i) == i < count

(* mutant: the owner is not compared *)
is_target_id_only(o, order_id, trader_id) == o.order_id = order_id

is_target(o, order_id, trader_id) ==
    o.order_id = order_id /\ o.trader_id = trader_id

(* mutant: the shift starts one slot late *)
shift_left_late(a, i) ==
    [j \in Slots |-> IF j > i /\ j < Capacity - 1 THEN a[j + 1] ELSE a[j]]

(* mutant: the shift copies to the right, a[j + 1] = a[j] *)
shift_left_reversed(a, i) ==
    [j \in Slots |-> IF j > i THEN a[i] ELSE a[j]]

(* for j in i..9 { a[j] = a[j + 1] }: slot 9 keeps its content *)
shift_left(a, i) ==
    [j \in Slots |-> IF j >= i /\ j < Capacity - 1 THEN a[j + 1] ELSE a[j]]

(* mutant: the count is lowered but the entries are not shifted *)
remove_buy_without_shift(b, i) == [b EXCEPT !.buy_count = @ - 1]

remove_buy(b, i) ==
    [b EXCEPT !.buy_orders = shift_left(@, i), !.buy_count = @ - 1]

(* mutant: the count is raised instead of lowered *)
remove_sell_count_up(b, i) ==
    [b EXCEPT !.sell_orders = shift_left(@, i), !.sell_count = @ + 1]

remove_sell(b, i) ==
    [b EXCEPT !.sell_orders = shift_left(@, i), !.sell_count = @ - 1]

(* st = [book, found, cmp]; cmp counts the evaluations of is_target *)
RECURSIVE cancel_buy_scan(_, _, _, _)
cancel_buy_scan(st, i, order_id, trader_id) ==
    IF i >= Capacity THEN st
    ELSE LET target == is_target(st.book.buy_orders[i], order_id, trader_id)
             nxt == IF order_exists(st.book.buy_count, i) /\ target /\ ~st.found
                    THEN [book  |-> remove_buy(st.book, i),
                          found |-> TRUE,
                          cmp   |-> st.cmp + 1]
                    ELSE [st EXCEPT !.cmp = @ + 1]
         IN  cancel_buy_scan(nxt, i + 1, order_id, trader_id)

(* mutant: the sell side is not scanned once the order has been found *)
RECURSIVE cancel_sell_scan_until_found(_, _, _, _)
cancel_sell_scan_until_found(st, i, order_id, trader_id) ==
    IF i >= Capacity \/ st.found THEN st
    ELSE LET target == is_target(st.book.sell_orders[i], order_id, trader_id)
             nxt == IF order_exists(st.book.sell_count, i) /\ target /\ ~st.found
                    THEN [book  |-> remove_sell(st.book, i),
                          found |-> TRUE,
                          cmp   |-> st.cmp + 1]
                    ELSE [st EXCEPT !.cmp = @ + 1]
         IN  cancel_sell_scan_until_found(nxt, i + 1, order_id, trader_id)

RECURSIVE cancel_sell_scan(_, _, _, _)
cancel_sell_scan(st, i, order_id, trader_id) ==
    IF i >= Capacity THEN st
    ELSE LET target == is_target(st.book.sell_orders[i], order_id, trader_id)
             nxt == IF order_exists(st.book.sell_count, i) /\ target /\ ~st.found
                    THEN [book  |-> remove_sell(st.book, i),
                          found |-> TRUE,
                          cmp   |-> st.cmp + 1]
                    ELSE [st EXCEPT !.cmp = @ + 1]
         IN  cancel_sell_scan(nxt, i + 1, order_id, trader_id)

cancel_order(b, order_id, trader_id) ==
    cancel_sell_scan(
        cancel_buy_scan([book |-> b, found |-> FALSE, cmp |-> 0],
                        0, order_id, trader_id),
        0, order_id, trader_id)

-----------------------------------------------------------------------------
(* compact_orders *)

(* mutant: filled orders are kept *)
should_keep_all(count, filled, orders, read_idx) == read_idx < count

should_keep(count, filled, orders, read_idx) ==
    read_idx < count /\ ~filled[read_idx] /\ orders[read_idx].quantity > 0

(* mutant: a kept order is counted but never moved to write_idx *)
RECURSIVE compact_side_in_place(_, _, _, _)
compact_side_in_place(st, count, filled, read_idx) ==
    IF read_idx >= Capacity THEN st
    ELSE LET nxt == IF should_keep(count, filled, st.orders, read_idx)
                    THEN [st EXCEPT !.write_idx = @ + 1, !.iters = @ + 1]
                    ELSE [st EXCEPT !.iters = @ + 1]
         IN  CHOOSE r \in {compact_side_in_place(n, count, filled, read_idx + 1) :
                            n \in {nxt}} : TRUE

(* st = [orders, write_idx, iters].  The state of a loop is handed to the   *)
(* next iteration through a one-element set, which makes TLC compute it    *)
(* once; the value is that of compact_side(nxt, ...).                      *)
RECURSIVE compact_side(_, _, _, _)
compact_side(st, count, filled, read_idx) ==
    IF read_idx >= Capacity THEN st
    ELSE LET nxt == IF should_keep(count, filled, st.orders, read_idx)
                    THEN [orders    |-> IF st.write_idx # read_idx
                                        THEN [st.orders EXCEPT
                                                ![st.write_idx] = st.orders[read_idx]]
                                        ELSE st.orders,
                          write_idx |-> st.write_idx + 1,
                          iters     |-> st.iters + 1]
                    ELSE [st EXCEPT !.iters = @ + 1]
         IN  CHOOSE r \in {compact_side(n, count, filled, read_idx + 1) :
                            n \in {nxt}} : TRUE

(* mutant: the sell side is left as the scan left it *)
compact_orders_buys_only(b, buy_filled, sell_filled) ==
    LET bs == compact_side([orders |-> b.buy_orders, write_idx |-> 0, iters |-> 0],
                           b.buy_count, buy_filled, 0)
    IN  [book  |-> [b EXCEPT !.buy_orders = bs.orders,
                             !.buy_count = bs.write_idx],
         iters |-> bs.iters]

compact_orders(b, buy_filled, sell_filled) ==
    LET bs == compact_side([orders |-> b.buy_orders, write_idx |-> 0, iters |-> 0],
                           b.buy_count, buy_filled, 0)
        ss == compact_side([orders |-> b.sell_orders, write_idx |-> 0, iters |-> 0],
                           b.sell_count, sell_filled, 0)
    IN  [book  |-> [b EXCEPT !.buy_orders = bs.orders,
                             !.buy_count = bs.write_idx,
                             !.sell_orders = ss.orders,
                             !.sell_count = ss.write_idx],
         iters |-> bs.iters + ss.iters]

-----------------------------------------------------------------------------
(* match_orders *)

(* mutant: the cap is tested with <= *)
under_cap_inclusive(trade_count) == trade_count <= TradeCap

(* trade_count < 5, the cap both scans test *)
under_cap(trade_count) == trade_count < TradeCap

should_process_buy(b, buy_idx, trade_count) ==
    buy_idx < b.buy_count /\ under_cap(trade_count)

buy_is_active(buy_filled, buy_idx, buy_order) ==
    ~buy_filled[buy_idx] /\ buy_order.quantity > 0

should_process_sell(b, sell_idx, trade_count, buy_order) ==
    sell_idx < b.sell_count /\ under_cap(trade_count) /\ buy_order.quantity > 0

sell_is_active(sell_filled, sell_idx, sell_order) ==
    ~sell_filled[sell_idx] /\ sell_order.quantity > 0

(* mutant: a buy priced exactly at the sell does not match *)
prices_match_strict(buy_order, sell_order) == buy_order.price > sell_order.price

(* mutant: the comparison is reversed *)
prices_match_reversed(buy_order, sell_order) == buy_order.price <= sell_order.price

prices_match(buy_order, sell_order) == buy_order.price >= sell_order.price

(* mutant: the larger of the two quantities is traded *)
trade_quantity_larger(buy_order, sell_order) ==
    IF buy_order.quantity < sell_order.quantity
    THEN sell_order.quantity
    ELSE buy_order.quantity

(* mutant: the buy's quantity is traded whatever the sell holds *)
trade_quantity_of_buy(buy_order, sell_order) == buy_order.quantity

trade_quantity(buy_order, sell_order) ==
    IF buy_order.quantity < sell_order.quantity
    THEN buy_order.quantity
    ELSE sell_order.quantity

(* mutant: the trade is priced at the buy *)
trade_price_of_buy(buy_order, sell_order) == buy_order.price

trade_price(buy_order, sell_order) == sell_order.price

new_trade(buy_order, sell_order, timestamp) ==
    [buyer_id  |-> buy_order.trader_id,
     seller_id |-> sell_order.trader_id,
     price     |-> trade_price(buy_order, sell_order),
     quantity  |-> trade_quantity(buy_order, sell_order),
     timestamp |-> timestamp]

(* trades[idx] = t on [Trade; 5].  The source would stop at an index of 5  *)
(* or more; every write is recorded in the log with its index.             *)
write_trade(trades, idx, t) ==
    [i \in 0 .. (TradeCap - 1) |-> IF i = idx THEN t ELSE trades[i]]

(* mutant: the order is emptied whatever was traded *)
sub_u64_to_zero(a, b) == 0

(* a -= b on u64; a result below 0 stands for the wrapped value *)
sub_u64(a, b) == a - b

(* mutant: a fill stamps the time of the match on both orders *)
fill_restamped(st, buy_idx, sell_idx, timestamp) ==
    LET buy_order   == st.buy_order
        sell_order  == st.book.sell_orders[sell_idx]
        t           == new_trade(buy_order, sell_order, timestamp)
        buy_after   == [buy_order EXCEPT
                          !.quantity = sub_u64(@, t.quantity),
                          !.timestamp = timestamp]
        sell_after  == [sell_order EXCEPT
                          !.quantity = sub_u64(@, t.quantity),
                          !.timestamp = timestamp]
    IN  [st EXCEPT
           !.trades      = write_trade(@, st.trade_count, t),
           !.trade_count = @ + 1,
           !.buy_filled  = IF buy_after.quantity = 0
                           THEN [@ EXCEPT ![buy_idx] = TRUE] ELSE @,
           !.sell_filled = IF sell_after.quantity = 0
                           THEN [@ EXCEPT ![sell_idx] = TRUE] ELSE @,
           !.book        = [@ EXCEPT !.buy_orders[buy_idx] = buy_after,
                                     !.sell_orders[sell_idx] = sell_after],
           !.buy_order   = buy_after,
           !.log         = Append(@, [buy_idx  |-> buy_idx,
                                      sell_idx |-> sell_idx,
                                      widx     |-> st.trade_count,
                                      buy_qty  |-> st.book.buy_orders[buy_idx].quantity,
                                      sell_qty |-> st.book.sell_orders[sell_idx].quantity,
                                      trade    |-> t])]

(* The body of `if sell_is_active && prices_match`.                         *)
(* st = [book, trades, trade_count, buy_filled, sell_filled, buy_order,     *)
(*       log, buy_iters, sell_iters]; buy_order is the local copy of the    *)
(* scan of one buy slot.  A log entry records the slots of the pair, the    *)
(* index written in trades and the two quantities the book held then.       *)
fill(st, buy_idx, sell_idx, timestamp) ==
    LET buy_order   == st.buy_order
        sell_order  == st.book.sell_orders[sell_idx]
        t           == new_trade(buy_order, sell_order, timestamp)
        buy_after   == [buy_order EXCEPT
                          !.quantity = sub_u64(@, t.quantity)]
        sell_after  == [sell_order EXCEPT
                          !.quantity = sub_u64(@, t.quantity)]
    IN  [st EXCEPT
           !.trades      = write_trade(@, st.trade_count, t),
           !.trade_count = @ + 1,
           !.buy_filled  = IF buy_after.quantity = 0
                           THEN [@ EXCEPT ![buy_idx] = TRUE] ELSE @,
           !.sell_filled = IF sell_after.quantity = 0
                           THEN [@ EXCEPT ![sell_idx] = TRUE] ELSE @,
           !.book        = [@ EXCEPT !.buy_orders[buy_idx] = buy_after,
                                     !.sell_orders[sell_idx] = sell_after],
           !.buy_order   = buy_after,
           !.log         = Append(@, [buy_idx  |-> buy_idx,
                                      sell_idx |-> sell_idx,
                                      widx     |-> st.trade_count,
                                      buy_qty  |-> st.book.buy_orders[buy_idx].quantity,
                                      sell_qty |-> st.book.sell_orders[sell_idx].quantity,
                                      trade    |-> t])]

(* mutant: the sell slots are visited from the last to the first *)
RECURSIVE sell_scan_descending(_, _, _, _)
sell_scan_descending(st, buy_idx, sell_idx, timestamp) ==
    IF sell_idx >= Capacity THEN st
    ELSE LET slot == Capacity - 1 - sell_idx
             counted == [st EXCEPT !.sell_iters = @ + 1]
             nxt == IF /\ should_process_sell(st.book, slot, st.trade_count,
                                              st.buy_order)
                       /\ sell_is_active(st.sell_filled, slot,
                                         st.book.sell_orders[slot])
                       /\ prices_match(st.buy_order, st.book.sell_orders[slot])
                    THEN fill(counted, buy_idx, slot, timestamp)
                    ELSE counted
         IN  CHOOSE r \in {sell_scan_descending(n, buy_idx, sell_idx + 1, timestamp) :
                            n \in {nxt}} : TRUE

RECURSIVE sell_scan(_, _, _, _)
sell_scan(st, buy_idx, sell_idx, timestamp) ==
    IF sell_idx >= Capacity THEN st
    ELSE LET counted == [st EXCEPT !.sell_iters = @ + 1]
             nxt == IF /\ should_process_sell(st.book, sell_idx, st.trade_count,
                                              st.buy_order)
                       /\ sell_is_active(st.sell_filled, sell_idx,
                                         st.book.sell_orders[sell_idx])
                       /\ prices_match(st.buy_order, st.book.sell_orders[sell_idx])
                    THEN fill(counted, buy_idx, sell_idx, timestamp)
                    ELSE counted
         IN  CHOOSE r \in {sell_scan(n, buy_idx, sell_idx + 1, timestamp) :
                            n \in {nxt}} : TRUE

(* mutant: the buy slots are visited from the last to the first *)
RECURSIVE buy_scan_descending(_, _, _)
buy_scan_descending(st, buy_idx, timestamp) ==
    IF buy_idx >= Capacity THEN st
    ELSE LET slot == Capacity - 1 - buy_idx
             counted == [st EXCEPT !.buy_iters = @ + 1]
             loaded  == [counted EXCEPT !.buy_order = st.book.buy_orders[slot]]
             nxt == IF /\ should_process_buy(st.book, slot, st.trade_count)
                       /\ buy_is_active(st.buy_filled, slot,
                                        st.book.buy_orders[slot])
                    THEN sell_scan(loaded, slot, 0, timestamp)
                    ELSE counted
         IN  CHOOSE r \in {buy_scan_descending(n, buy_idx + 1, timestamp) :
                            n \in {nxt}} : TRUE

RECURSIVE buy_scan(_, _, _)
buy_scan(st, buy_idx, timestamp) ==
    IF buy_idx >= Capacity THEN st
    ELSE LET counted == [st EXCEPT !.buy_iters = @ + 1]
             loaded  == [counted EXCEPT !.buy_order = st.book.buy_orders[buy_idx]]
             nxt == IF /\ should_process_buy(st.book, buy_idx, st.trade_count)
                       /\ buy_is_active(st.buy_filled, buy_idx,
                                        st.book.buy_orders[buy_idx])
                    THEN sell_scan(loaded, buy_idx, 0, timestamp)
                    ELSE counted
         IN  CHOOSE r \in {buy_scan(n, buy_idx + 1, timestamp) :
                            n \in {nxt}} : TRUE

(* MatchResult {trades, trade_count, order_book}, with the log and the     *)
(* iteration counts of the run *)
match_orders(b, timestamp) ==
    CHOOSE result \in
      { [trades        |-> scanned.trades,
         trade_count   |-> scanned.trade_count,
         order_book    |-> compact_orders(scanned.book, scanned.buy_filled,
                                          scanned.sell_filled).book,
         log           |-> scanned.log,
         buy_iters     |-> scanned.buy_iters,
         sell_iters    |-> scanned.sell_iters,
         compact_iters |-> compact_orders(scanned.book, scanned.buy_filled,
                                          scanned.sell_filled).iters] :
        scanned \in { buy_scan([book        |-> b,
                                trades      |-> [i \in 0 .. (TradeCap - 1) |-> Trade_new],
                                trade_count |-> 0,
                                buy_filled  |-> [i \in Slots |-> FALSE],
                                sell_filled |-> [i \in Slots |-> FALSE],
                                buy_order   |-> Order_new,
                                log         |-> << >>,
                                buy_iters   |-> 0,
                                sell_iters  |-> 0],
                               0, timestamp) } } : TRUE

-----------------------------------------------------------------------------
(* The on-chain program (programs/conf_hide).  The trading pair stores the *)
(* order book as a ciphertext with its nonce; an instruction queues a      *)
(* computation of the circuit, the cluster executes it on the stored       *)
(* ciphertext, and a callback stores what the computation returned.  A     *)
(* ciphertext is modelled by the value it encrypts and the nonce it was    *)
(* encrypted under; the program stores ciphertexts[0], which stands here   *)
(* for the whole encrypted value.                                          *)

Enc(plain, nonce) == [plain |-> plain, nonce |-> nonce]

(* order_book = [0; 32]: no order book is encrypted in it.  Nonce 0 marks  *)
(* it; the nonces of the cluster start at 1.                               *)
ZeroCiphertext == Enc(OrderBook_new, 0)

(* initialize_trading_pair, less the ids, mints and bump *)
TradingPair_new ==
    [order_book       |-> ZeroCiphertext,
     order_book_nonce |-> 0,
     is_active        |-> TRUE,
     total_orders     |-> 0]

(* ComputationOutputs<T>: Success(value) or anything else *)
Success(value) == [kind |-> "Success", value |-> value]
Failure == [kind |-> "Failure", value |-> Enc(OrderBook_new, 0)]

(* what a callback did: the trading pair after it, the events it emitted,  *)
(* and Ok(()) or the error it returned                                     *)
Returned(tp, events, result) == [pair |-> tp, events |-> events, result |-> result]

Aborted(tp) == Returned(tp, << >>, "AbortedComputation")

init_order_book_callback(tp, output) ==
    IF output.kind = "Success"
    THEN Returned([tp EXCEPT !.order_book = output.value,
                             !.order_book_nonce = output.value.nonce],
                  <<"TradingPairInitializedEvent">>, "Ok")
    ELSE Aborted(tp)

(* mutant: the order is counted before the output is looked at *)
submit_order_callback_counts_first(tp, output) ==
    IF output.kind = "Success"
    THEN Returned([tp EXCEPT !.order_book = output.value,
                             !.order_book_nonce = output.value.nonce,
                             !.total_orders = @ + 1],
                  <<"OrderSubmittedEvent">>, "Ok")
    ELSE Returned([tp EXCEPT !.total_orders = @ + 1], << >>, "AbortedComputation")

submit_order_callback(tp, output) ==
    IF output.kind = "Success"
    THEN Returned([tp EXCEPT !.order_book = output.value,
                             !.order_book_nonce = output.value.nonce,
                             !.total_orders = @ + 1],
                  <<"OrderSubmittedEvent">>, "Ok")
    ELSE Aborted(tp)

cancel_order_callback(tp, output) ==
    IF output.kind = "Success"
    THEN Returned([tp EXCEPT !.order_book = output.value,
                             !.order_book_nonce = output.value.nonce],
                  <<"OrderCancelledEvent">>, "Ok")
    ELSE Aborted(tp)

(* only the nonce of the MatchResult is stored; order_book is not assigned *)
match_orders_callback(tp, output) ==
    IF output.kind = "Success"
    THEN Returned([tp EXCEPT !.order_book_nonce = output.value.nonce],
                  <<"OrdersMatchedEvent">>, "Ok")
    ELSE Aborted(tp)

(* a queued computation: its offset, the circuit, the arguments the        *)
(* instruction passed (the nonce is order_book_nonce at that moment), and, *)
(* once executed, its output and the ciphertext it was given               *)
Computation(offset, ix, order, order_id, trader_id, timestamp, nonce) ==
    [offset |-> offset, ix |-> ix, order |-> order, order_id |-> order_id,
     trader_id |-> trader_id, timestamp |-> timestamp, nonce |-> nonce,
     executed |-> FALSE, output |-> Failure, read |-> ZeroCiphertext]

(* the state initialize_trading_pair leaves: the pair, and the             *)
(* init_order_book computation queued                                      *)
ChainStart ==
    [pair        |-> TradingPair_new,
     inflight    |-> {Computation(0, "init_order_book", Order_new, 0, 0, 0, 0)},
     next_offset |-> 1,
     next_nonce  |-> 1,
     events      |-> << >>,
     done        |-> Computation(0, "none", Order_new, 0, 0, 0, 0),
     result      |-> "Ok",                 \* what the last callback returned
     before      |-> [pair |-> TradingPair_new, events |-> << >>]]

(* queue_computation with the callback of the instruction *)
queue_computation(c) ==
    chain' = [chain EXCEPT !.inflight = @ \cup {c}, !.next_offset = @ + 1]

(* submit_order: the pair must be active; nothing else is required *)
QueueSubmitOrder(order) ==
    /\ chain.pair.is_active
    /\ chain.next_offset <= MaxComputations
    /\ queue_computation(Computation(chain.next_offset, "submit_order", order,
                                     0, 0, 0, chain.pair.order_book_nonce))
    /\ UNCHANGED <<book, prev, last, issued, cancelled, settlement>>

QueueCancelOrder(order_id, trader_id) ==
    /\ chain.pair.is_active
    /\ chain.next_offset <= MaxComputations
    /\ queue_computation(Computation(chain.next_offset, "cancel_order", Order_new,
                                     order_id, trader_id, 0,
                                     chain.pair.order_book_nonce))
    /\ UNCHANGED <<book, prev, last, issued, cancelled, settlement>>

QueueMatchOrders(timestamp) ==
    /\ chain.pair.is_active
    /\ chain.next_offset <= MaxComputations
    /\ queue_computation(Computation(chain.next_offset, "match_orders", Order_new,
                                     0, 0, timestamp,
                                     chain.pair.order_book_nonce))
    /\ UNCHANGED <<book, prev, last, issued, cancelled, settlement>>

(* what the circuit of c returns on the order book b *)
Circuit(c, b) ==
    CASE c.ix = "init_order_book" -> init_order_book
      [] c.ix = "submit_order"    -> submit_order(c.order, b).book
      [] c.ix = "cancel_order"    -> cancel_order(b, c.order_id, c.trader_id).book
      [] c.ix = "match_orders"    ->
            [trades      |-> match_orders(b, c.timestamp).trades,
             trade_count |-> match_orders(b, c.timestamp).trade_count,
             order_book  |-> match_orders(b, c.timestamp).order_book]

(* The cluster executes a queued computation on the ciphertext the account *)
(* holds at that moment (Argument::Account) and encrypts the result under  *)
(* a new nonce.  Any computation may fail; one that is given the all-zero  *)
(* ciphertext has no order book to work on and fails.                      *)
Execute(c) ==
    /\ ~c.executed
    /\ \E ok \in BOOLEAN :
         LET ct  == chain.pair.order_book
             can == c.ix = "init_order_book" \/ ct # ZeroCiphertext
             out == IF ok /\ can
                    THEN Success(Enc(Circuit(c, ct.plain), chain.next_nonce))
                    ELSE Failure
         IN  chain' = [chain EXCEPT
                         !.inflight = (@ \ {c})
                            \cup {[c EXCEPT !.executed = TRUE, !.output = out,
                                            !.read = ct]},
                         !.next_nonce = IF out = Failure THEN @ ELSE @ + 1]
    /\ UNCHANGED <<book, prev, last, issued, cancelled, settlement>>

(* the callback instruction of the computation's circuit *)
callback(c, tp) ==
    CASE c.ix = "init_order_book" -> init_order_book_callback(tp, c.output)
      [] c.ix = "submit_order"    -> submit_order_callback(tp, c.output)
      [] c.ix = "cancel_order"    -> cancel_order_callback(tp, c.output)
      [] c.ix = "match_orders"    -> match_orders_callback(tp, c.output)

Callback(c) ==
    /\ c.executed
    /\ LET r == callback(c, chain.pair)
       IN  chain' = [chain EXCEPT
                       !.pair     = r.pair,
                       !.events   = @ \o r.events,
                       !.inflight = @ \ {c},
                       !.done     = c,
                       !.result   = r.result,
                       !.before   = [pair |-> chain.pair, events |-> chain.events]]
    /\ UNCHANGED <<book, prev, last, issued, cancelled, settlement>>

-----------------------------------------------------------------------------
(* Settlement: execute_trade of programs/conf_hide/src/lib.rs.  A token    *)
(* account is its data as try_deserialize sees it: whether it is a token   *)
(* account at all, its owner and its amount.  Amounts, prices and          *)
(* quantities are u64 in the source; the model keeps the arithmetic of an  *)
(* unsigned word whose largest value is U64_MAX.                           *)

Parties == {"buyer", "seller"}

Some(v) == [is_some |-> TRUE, value |-> v]

None == [is_some |-> FALSE, value |-> 0]

(* mutant of checked_mul: the product wraps instead of being refused *)
wrapping_mul(a, b) == Some((a * b) % (U64_MAX + 1))

(* u64::checked_mul: None when the product does not fit the word *)
checked_mul(a, b) == IF a * b > U64_MAX THEN None ELSE Some(a * b)

TokenAccount(data_ok, owner, amount) ==
    [data_ok |-> data_ok, owner |-> owner, amount |-> amount]

(* token::transfer as execute_trade calls it: amount moves from one token  *)
(* account to the other; the token program refuses what the source lacks   *)
token_transfer(accounts, from, to, amount) ==
    IF accounts[from].amount < amount
    THEN [ok |-> FALSE, accounts |-> accounts]
    ELSE [ok |-> TRUE,
          accounts |-> [[accounts EXCEPT ![from].amount = @ - amount]
                           EXCEPT ![to].amount = @ + amount]]

Err(accounts, code, transfers) ==
    [result |-> code, accounts |-> accounts, transfers |-> transfers,
     events |-> << >>]

(* execute_trade, price and quantity being its trade_price and             *)
(* trade_quantity: the checks in the order of the source, then the quote   *)
(* transfer buyer -> seller, then the base transfer seller -> buyer.  A    *)
(* failed instruction leaves every account as it was.  transfers lists     *)
(* the token::transfer calls the instruction made.                         *)
execute_trade(accounts, buyer_id, seller_id, price, quantity, now) ==
    IF ~(price > 0) THEN Err(accounts, "InvalidPrice", << >>)
    ELSE IF ~(quantity > 0) THEN Err(accounts, "InvalidQuantity", << >>)
    ELSE IF \/ ~accounts["buyer_quote"].data_ok
            \/ ~accounts["seller_base"].data_ok
            \/ ~accounts["buyer_base"].data_ok
            \/ ~accounts["seller_quote"].data_ok
    THEN Err(accounts, "AccountDidNotDeserialize", << >>)
    ELSE IF \/ accounts["buyer_quote"].owner # "buyer"
            \/ accounts["seller_base"].owner # "seller"
            \/ accounts["buyer_base"].owner # "buyer"
            \/ accounts["seller_quote"].owner # "seller"
    THEN Err(accounts, "InvalidTokenAccount", << >>)
    ELSE LET product == checked_mul(price, quantity) IN
    IF ~product.is_some THEN Err(accounts, "MathOverflow", << >>)
    ELSE LET quote_amount == product.value IN
    IF ~(accounts["buyer_quote"].amount >= quote_amount)
    THEN Err(accounts, "InsufficientBalance", << >>)
    ELSE IF ~(accounts["seller_base"].amount >= quantity)
    THEN Err(accounts, "InsufficientBalance", << >>)
    ELSE LET quote == [from |-> "buyer_quote", to |-> "seller_quote",
                       authority |-> "buyer", amount |-> quote_amount]
             base  == [from |-> "seller_base", to |-> "buyer_base",
                       authority |-> "seller", amount |-> quantity]
             t1 == token_transfer(accounts, quote.from, quote.to, quote.amount)
             t2 == token_transfer(t1.accounts, base.from, base.to, base.amount)
         IN  IF ~t1.ok THEN Err(accounts, "TokenProgramError", <<quote>>)
             ELSE IF ~t2.ok
             THEN Err(accounts, "TokenProgramError", <<quote, base>>)
             ELSE [result    |-> "Ok",
                   accounts  |-> t2.accounts,
                   transfers |-> <<quote, base>>,
                   events    |-> <<[name      |-> "TradeExecutedEvent",
                                    buyer_id  |-> buyer_id,
                                    seller_id |-> seller_id,
                                    price     |-> price,
                                    quantity  |-> quantity,
                                    timestamp |-> now]>>]

(* no trade is being settled *)
NoSettlement ==
    [accounts  |-> [a \in {"buyer_quote", "seller_base", "buyer_base",
                           "seller_quote"} |-> TokenAccount(TRUE, "buyer", 0)],
     before    |-> << >>,
     call      |-> << >>,
     result    |-> "none",
     transfers |-> << >>,
     events    |-> << >>]

(* one execute_trade instruction, signed by the buyer and the seller *)
ExecuteTradeIx(buyer_id, seller_id, price, quantity, now) ==
    /\ LET r == execute_trade(settlement.accounts, buyer_id, seller_id,
                              price, quantity, now)
       IN  settlement' = [accounts  |-> r.accounts,
                          before    |-> settlement.accounts,
                          call      |-> [buyer_id       |-> buyer_id,
                                         seller_id      |-> seller_id,
                                         trade_price    |-> price,
                                         trade_quantity |-> quantity],
                          result    |-> r.result,
                          transfers |-> r.transfers,
                          events    |-> r.events]
    /\ UNCHANGED <<book, prev, last, issued, cancelled, chain>>

-----------------------------------------------------------------------------
(* The caller: one book, operated on by one call at a time *)

Idle ==
    [op          |-> "init",
     ok          |-> FALSE,          \* success of insert, found of cancel
     order       |-> Order_new,      \* the order submitted
     order_id    |-> 0,              \* arguments of cancel
     trader_id   |-> 0,
     timestamp   |-> 0,              \* argument of match
     trades      |-> [i \in 0 .. (TradeCap - 1) |-> Trade_new],
     trade_count |-> 0,
     log         |-> << >>,
     iters       |-> 0,              \* loop iterations / comparisons of the call
     run         |-> 0]              \* match calls in a row that traded, this one included

Orders(sides, prices, quantities, traders) ==
    [order_id : CallerIds, price : prices, quantity : quantities, side : sides,
     trader_id : traders, timestamp : OrderTimes]

(* the slot an accepted insertion wrote *)
stored(before, after, side) ==
    IF side THEN after.buy_orders[before.buy_count]
            ELSE after.sell_orders[before.sell_count]

Init ==
    /\ book = init_order_book
    /\ prev = init_order_book
    /\ last = Idle
    /\ issued = << >>
    /\ cancelled = {}
    /\ chain = ChainStart
    /\ settlement = NoSettlement

SubmitOrder(o) ==
    LET r == submit_order(o, book)
    IN  /\ book' = r.book
        /\ prev' = book
        /\ last' = [Idle EXCEPT !.op = "submit", !.ok = r.ok, !.order = o]
        /\ issued' = IF r.ok
                     THEN Append(issued,
                                 [id   |-> stored(book, r.book, o.side).order_id,
                                  side |-> o.side])
                     ELSE issued
        /\ UNCHANGED <<cancelled, chain, settlement>>

CancelOrder(order_id, trader_id) ==
    LET r == cancel_order(book, order_id, trader_id)
    IN  /\ book' = r.book
        /\ prev' = book
        /\ last' = [Idle EXCEPT !.op = "cancel", !.ok = r.found,
                                !.order_id = order_id, !.trader_id = trader_id,
                                !.iters = r.cmp]
        /\ cancelled' = IF r.found THEN cancelled \cup {order_id} ELSE cancelled
        /\ UNCHANGED <<issued, chain, settlement>>

MatchOrders(timestamp) ==
    \E r \in {match_orders(book, timestamp)} :
        /\ book' = r.order_book
        /\ prev' = book
        /\ last' = [Idle EXCEPT !.op = "match", !.timestamp = timestamp,
                                !.trades = r.trades,
                                !.trade_count = r.trade_count,
                                !.log = r.log,
                                !.run = IF r.trade_count > 0
                                        THEN last.run + 1 ELSE 0,
                                !.iters = r.buy_iters + r.sell_iters
                                          + r.compact_iters]
        /\ UNCHANGED <<issued, cancelled, chain, settlement>>

(* Spec: any sequence of insert, cancel and match from the empty book.     *)
(* Trader 1 submits buys at any price, trader 2 sells at price 2 (a buy at *)
(* 1 rests, a buy at 2 crosses); either may try to cancel any id.          *)
Submitted ==
    Orders({TRUE}, Prices, Quantities, {1}) \cup Orders({FALSE}, {2}, Quantities, {2})

Submit ==
    /\ book.next_order_id <= MaxOrders
    /\ \E o \in Submitted : SubmitOrder(o)

Cancel ==
    \E id \in 1 .. MaxOrders, t \in Traders : CancelOrder(id, t)

Match ==
    \E ts \in MatchTimes : MatchOrders(ts)

Next == Submit \/ Cancel \/ Match

Spec == Init /\ [][Next]_vars

(* SpecFill: insertions only, of one kind of order per side, until a side  *)
(* is full and beyond *)
Fill ==
    /\ book.next_order_id <= MaxSubmits
    /\ \E o \in Orders(BOOLEAN, {1}, {1}, {1}) : SubmitOrder(o)

NextFill == Fill

SpecFill == Init /\ [][NextFill]_vars

(* SpecMatch: match_orders applied again and again to an input book.  An   *)
(* input book is one that insertions alone produce: the buys hold ids      *)
(* 1..nb, the sells nb+1..nb+ns, the traders alternate.                    *)
InputBook(nb, ns, bp, bq, sp, sq) ==
    [buy_orders    |-> [i \in Slots |->
                          IF i < nb
                          THEN [order_id |-> i + 1, price |-> bp[i],
                                quantity |-> bq[i], side |-> TRUE,
                                trader_id |-> 1 + (i % 2), timestamp |-> 1]
                          ELSE Order_new],
     buy_count     |-> nb,
     sell_orders   |-> [i \in Slots |->
                          IF i < ns
                          THEN [order_id |-> nb + i + 1, price |-> sp[i],
                                quantity |-> sq[i], side |-> FALSE,
                                trader_id |-> 2 - (i % 2), timestamp |-> 1]
                          ELSE Order_new],
     sell_count    |-> ns,
     next_order_id |-> nb + ns + 1]

InputIssued(nb, ns) ==
    [k \in 1 .. (nb + ns) |-> [id |-> k, side |-> k <= nb]]

(* small books: every price and quantity on every order *)
SmallInput ==
    \E nb \in 0 .. SmallSide, ns \in 0 .. SmallSide :
      \E bp \in [0 .. nb - 1 -> Prices], bq \in [0 .. nb - 1 -> Quantities],
         sp \in [0 .. ns - 1 -> Prices], sq \in [0 .. ns - 1 -> Quantities] :
        /\ book = InputBook(nb, ns, bp, bq, sp, sq)
        /\ issued = InputIssued(nb, ns)

(* deep books: one price per side, every quantity on every order *)
DeepInput ==
    \E nb \in 0 .. MaxBuys, ns \in 0 .. MaxSells :
      \E pb \in Prices, ps \in Prices,
         bq \in [0 .. nb - 1 -> Quantities], sq \in [0 .. ns - 1 -> Quantities] :
        /\ book = InputBook(nb, ns, [i \in 0 .. nb - 1 |-> pb], bq,
                            [i \in 0 .. ns - 1 |-> ps], sq)
        /\ issued = InputIssued(nb, ns)

(* submit_order stores the quantity it is given, 0 included *)
InputQuantities == {0} \cup Quantities

(* books with orders of quantity 0: one price per side, every quantity,    *)
(* 0 included, on every order *)
ZeroInput ==
    \E nb \in 1 .. SmallSide, ns \in 1 .. SmallSide :
      \E pb \in Prices, ps \in Prices,
         bq \in [0 .. nb - 1 -> InputQuantities],
         sq \in [0 .. ns - 1 -> InputQuantities] :
        /\ book = InputBook(nb, ns, [i \in 0 .. nb - 1 |-> pb], bq,
                            [i \in 0 .. ns - 1 |-> ps], sq)
        /\ issued = InputIssued(nb, ns)

(* the book of the worked example: buy 100 x 5 against sell 90 x 3 *)
ExampleInput ==
    /\ book = InputBook(1, 1, [i \in {0} |-> 100], [i \in {0} |-> 5],
                        [i \in {0} |-> 90], [i \in {0} |-> 3])
    /\ issued = InputIssued(1, 1)

InitMatch ==
    /\ SmallInput \/ DeepInput \/ ZeroInput \/ ExampleInput
    /\ prev = book
    /\ last = Idle
    /\ cancelled = {}
    /\ chain = ChainStart
    /\ settlement = NoSettlement

NextMatch == Match

SpecMatch == InitMatch /\ [][NextMatch]_vars

(* the caller keeps calling match_orders while a call still changes anything *)
SpecMatchFair == SpecMatch /\ WF_vars(Match)

(* SpecFull: insert, cancel and match on a book that insertions have       *)
(* filled to capacity or one short of it on each side: buys at 1, sells at *)
(* 2, every quantity 1; the orders submitted to it cross.                  *)
FullInput ==
    \E nb \in {Capacity - 1, Capacity}, ns \in {Capacity - 1, Capacity} :
        /\ book = InputBook(nb, ns, [i \in 0 .. nb - 1 |-> 1],
                            [i \in 0 .. nb - 1 |-> 1],
                            [i \in 0 .. ns - 1 |-> 2],
                            [i \in 0 .. ns - 1 |-> 1])
        /\ issued = InputIssued(nb, ns)

InitFull ==
    /\ FullInput
    /\ prev = book
    /\ last = Idle
    /\ cancelled = {}
    /\ chain = ChainStart
    /\ settlement = NoSettlement

(* one buy and one sell, which cross *)
Refilled ==
    Orders({TRUE}, {2}, {1}, {1}) \cup Orders({FALSE}, {2}, {1}, {2})

Refill ==
    /\ book.next_order_id <= 2 * Capacity + MaxRefills
    /\ \E o \in Refilled : SubmitOrder(o)

(* the first buy, the buy of slot 9 and the sell of slot 9 of a full book *)
CancelFull ==
    \E id \in {1, Capacity, 2 * Capacity}, t \in Traders : CancelOrder(id, t)

NextFull == Refill \/ CancelFull \/ Match

SpecFull == InitFull /\ [][NextFull]_vars

(* SpecChain: a trading pair from its creation on.  Any account may queue  *)
(* a submit, a cancel or a match at any time; the cluster executes the     *)
(* queued computations and calls back in any order.                        *)
ChainOrders ==
    Orders({TRUE}, {2}, {0, 1}, {1}) \cup Orders({FALSE}, {0, 2}, {1}, {2})

(* a pair whose callbacks have stored the book of two accepted orders, a   *)
(* buy 100 x 5 and a sell 90 x 3, under nonce 1                            *)
ChainLoaded ==
    [ChainStart EXCEPT
       !.pair       = [TradingPair_new EXCEPT
                         !.order_book = Enc(InputBook(1, 1, [i \in {0} |-> 100],
                                                      [i \in {0} |-> 5],
                                                      [i \in {0} |-> 90],
                                                      [i \in {0} |-> 3]), 1),
                         !.order_book_nonce = 1,
                         !.total_orders = 2],
       !.inflight   = {},
       !.next_nonce = 2,
       !.events     = <<"TradingPairInitializedEvent", "OrderSubmittedEvent",
                        "OrderSubmittedEvent">>]

InitChain ==
    /\ book = init_order_book
    /\ prev = init_order_book
    /\ last = Idle
    /\ issued = << >>
    /\ cancelled = {}
    /\ chain \in {ChainStart, ChainLoaded}
    /\ settlement = NoSettlement

QueueSubmit == \E o \in ChainOrders : QueueSubmitOrder(o)

(* the owner of the first order cancels it *)
QueueCancel == \E id \in {1} : QueueCancelOrder(id, 1)

QueueMatch == \E ts \in MatchTimes : QueueMatchOrders(ts)

Executes == \E c \in chain.inflight : Execute(c)

Callbacks == \E c \in chain.inflight : Callback(c)

NextChain == QueueSubmit \/ QueueCancel \/ QueueMatch \/ Executes \/ Callbacks

SpecChain == InitChain /\ [][NextChain]_vars

-----------------------------------------------------------------------------
(* SpecTrade: execute_trade called again and again on four token accounts. *)
(* The two quote accounts are of one mint and so are the two base          *)
(* accounts: a mint's supply is a u64, so the amounts of a pair add up to  *)
(* U64_MAX at most.  At most one account is not a token account and at     *)
(* most one belongs to the other party.                                    *)
TokenAccountNames == {"buyer_quote", "seller_base", "buyer_base", "seller_quote"}

Amounts == {0, 4, U64_MAX}

TradePrices == {0, 1, 3, 4, 5}

TradeQuantities == {0, 1, 3, 4}

RightOwner(a) == IF a \in {"buyer_quote", "buyer_base"} THEN "buyer" ELSE "seller"

TradeAccounts ==
    { [a \in TokenAccountNames |->
         TokenAccount(a # bad,
                      IF a = foreign THEN CHOOSE p \in Parties : p # RightOwner(a)
                                     ELSE RightOwner(a),
                      amount[a])] :
        bad \in TokenAccountNames \cup {"none"},
        foreign \in TokenAccountNames \cup {"none"},
        amount \in { f \in [TokenAccountNames -> Amounts] :
                       /\ f["buyer_quote"] + f["seller_quote"] <= U64_MAX
                       /\ f["buyer_base"] + f["seller_base"] <= U64_MAX } }

InitTrade ==
    /\ book = init_order_book
    /\ prev = init_order_book
    /\ last = Idle
    /\ issued = << >>
    /\ cancelled = {}
    /\ chain = ChainStart
    /\ settlement \in { [NoSettlement EXCEPT !.accounts = acc] : acc \in TradeAccounts }

ExecuteTrade ==
    \E price \in TradePrices, quantity \in TradeQuantities, now \in MatchTimes :
        ExecuteTradeIx(1, 2, price, quantity, now)

NextTrade == ExecuteTrade

SpecTrade == InitTrade /\ [][NextTrade]_vars

-----------------------------------------------------------------------------
(* Vocabulary of the properties *)

ActiveBuys(b)  == [k \in 1 .. b.buy_count  |-> b.buy_orders[k - 1]]
ActiveSells(b) == [k \in 1 .. b.sell_count |-> b.sell_orders[k - 1]]

SideCount(b, side) == IF side THEN b.buy_count ELSE b.sell_count

Without(seq, k) == SubSeq(seq, 1, k - 1) \o SubSeq(seq, k + 1, Len(seq))

Min(a, b) == IF a < b THEN a ELSE b

(* an active slot of b stores both this order_id and this trader_id *)
Holds(b, order_id, trader_id) ==
    \/ \E i \in Slots : /\ i < b.buy_count
                        /\ b.buy_orders[i].order_id = order_id
                        /\ b.buy_orders[i].trader_id = trader_id
    \/ \E i \in Slots : /\ i < b.sell_count
                        /\ b.sell_orders[i].order_id = order_id
                        /\ b.sell_orders[i].trader_id = trader_id

(* an active slot of b stores this order_id under another trader_id *)
HoldsForOther(b, order_id, trader_id) ==
    \/ \E i \in Slots : /\ i < b.buy_count
                        /\ b.buy_orders[i].order_id = order_id
                        /\ b.buy_orders[i].trader_id # trader_id
    \/ \E i \in Slots : /\ i < b.sell_count
                        /\ b.sell_orders[i].order_id = order_id
                        /\ b.sell_orders[i].trader_id # trader_id

(* some active buy and some active sell cross *)
Crossing(b) ==
    \E i, j \in Slots : /\ i < b.buy_count
                        /\ j < b.sell_count
                        /\ b.buy_orders[i].price >= b.sell_orders[j].price

(* every active buy is priced strictly below every active sell *)
Apart(b) ==
    \A i, j \in Slots : (i < b.buy_count /\ j < b.sell_count)
                        => b.buy_orders[i].price < b.sell_orders[j].price

AllPositive(b) ==
    \A i \in Slots : /\ i < b.buy_count  => b.buy_orders[i].quantity > 0
                     /\ i < b.sell_count => b.sell_orders[i].quantity > 0

SameActive(a, b) ==
    /\ a.buy_count = b.buy_count
    /\ a.sell_count = b.sell_count
    /\ ActiveBuys(a) = ActiveBuys(b)
    /\ ActiveSells(a) = ActiveSells(b)
    /\ a.next_order_id = b.next_order_id

(* what the trades before the k-th of the log took from a slot *)
RECURSIVE TakenFromBuy(_, _, _)
TakenFromBuy(log, k, idx) ==
    IF k <= 1 THEN 0
    ELSE TakenFromBuy(log, k - 1, idx)
         + (IF log[k - 1].buy_idx = idx THEN log[k - 1].trade.quantity ELSE 0)

RECURSIVE TakenFromSell(_, _, _)
TakenFromSell(log, k, idx) ==
    IF k <= 1 THEN 0
    ELSE TakenFromSell(log, k - 1, idx)
         + (IF log[k - 1].sell_idx = idx THEN log[k - 1].trade.quantity ELSE 0)

-----------------------------------------------------------------------------
(* C1: the order_ids handed out are strictly increasing in the order they  *)
(* were handed out, whatever cancels and matches came in between, every    *)
(* one is below next_order_id, and next_order_id never decreases.          *)
C1_IdsIncrease ==
    /\ \A i, j \in 1 .. Len(issued) : i < j => issued[i].id < issued[j].id
    /\ \A i \in 1 .. Len(issued) : issued[i].id < book.next_order_id
    /\ book.next_order_id >= prev.next_order_id
    /\ (last.op = "submit" /\ last.ok) =>
          /\ issued[Len(issued)].id = prev.next_order_id
          /\ book.next_order_id > prev.next_order_id

(* a third id is handed out when both earlier orders have left the book *)
C1_Witness ==
    /\ last.op = "submit" /\ last.ok
    /\ Len(issued) = 3
    /\ book.buy_count + book.sell_count = 1

(* C2: a cancel whose (order_id, trader_id) no active slot stores, be the  *)
(* id absent or stored under another trader, reports false and leaves the  *)
(* book as it was; a cancel that reports true or changes the book had an   *)
(* active slot storing both.                                               *)
C2_CancelNeedsBoth ==
    last.op = "cancel" =>
        /\ ~Holds(prev, last.order_id, last.trader_id) =>
               (~last.ok /\ book = prev)
        /\ (last.ok \/ book # prev) =>
               Holds(prev, last.order_id, last.trader_id)

(* the id is in the book, under the other trader *)
C2_Witness ==
    /\ last.op = "cancel" /\ ~last.ok
    /\ HoldsForOther(prev, last.order_id, last.trader_id)
    /\ prev.buy_count + prev.sell_count >= 2

(* C3: a cancel that reports true deletes the one entry it names from its  *)
(* side, the later entries moving one place left in their order; that      *)
(* side's count drops by 1; the other side and next_order_id are as they   *)
(* were.                                                                   *)
C3_CancelRemovesOne ==
    (last.op = "cancel" /\ last.ok) =>
        /\ book.next_order_id = prev.next_order_id
        /\ \/ /\ \E k \in 1 .. prev.buy_count :
                   /\ ActiveBuys(prev)[k].order_id = last.order_id
                   /\ ActiveBuys(prev)[k].trader_id = last.trader_id
                   /\ ActiveBuys(book) = Without(ActiveBuys(prev), k)
              /\ book.buy_count = prev.buy_count - 1
              /\ book.sell_count = prev.sell_count
              /\ book.sell_orders = prev.sell_orders
           \/ /\ \E k \in 1 .. prev.sell_count :
                   /\ ActiveSells(prev)[k].order_id = last.order_id
                   /\ ActiveSells(prev)[k].trader_id = last.trader_id
                   /\ ActiveSells(book) = Without(ActiveSells(prev), k)
              /\ book.sell_count = prev.sell_count - 1
              /\ book.buy_count = prev.buy_count
              /\ book.buy_orders = prev.buy_orders

(* the first of three buys is cancelled *)
C3_Witness ==
    /\ last.op = "cancel" /\ last.ok
    /\ prev.buy_count = 3
    /\ prev.buy_orders[0].order_id = last.order_id
    /\ book.buy_count = 2

(* C4: the k-th trade of a match pairs an active buy and an active sell of *)
(* the input book that cross and that both still hold a positive quantity  *)
(* when it is made; it is priced at the sell, its quantity is the smaller  *)
(* of the two remainders, it names the two traders and carries the         *)
(* timestamp passed in; and it is the k-th trade returned.                 *)
C4_TradesAreSound ==
    last.op = "match" =>
        /\ Len(last.log) = last.trade_count
        /\ \A k \in 1 .. Len(last.log) :
             LET e    == last.log[k]
                 buy  == prev.buy_orders[e.buy_idx]
                 sell == prev.sell_orders[e.sell_idx]
                 bq   == buy.quantity - TakenFromBuy(last.log, k, e.buy_idx)
                 sq   == sell.quantity - TakenFromSell(last.log, k, e.sell_idx)
             IN  /\ e.buy_idx < prev.buy_count
                 /\ e.sell_idx < prev.sell_count
                 /\ buy.price >= sell.price
                 /\ bq > 0 /\ sq > 0
                 /\ e.buy_qty = bq /\ e.sell_qty = sq
                 /\ e.trade.price = sell.price
                 /\ e.trade.quantity = Min(bq, sq)
                 /\ e.trade.quantity > 0
                 /\ e.trade.buyer_id = buy.trader_id
                 /\ e.trade.seller_id = sell.trader_id
                 /\ e.trade.timestamp = last.timestamp
                 /\ k <= TradeCap => last.trades[k - 1] = e.trade

(* one buy trades with two sells, at a price below its own *)
C4_Witness ==
    /\ last.op = "match"
    /\ last.trade_count >= 2
    /\ last.log[1].buy_idx = last.log[2].buy_idx
    /\ last.log[1].sell_idx # last.log[2].sell_idx
    /\ last.log[1].trade.price < prev.buy_orders[last.log[1].buy_idx].price
    /\ last.log[1].trade.buyer_id # last.log[1].trade.seller_id

(* C5: a match returns at most 5 trades and writes no trade at an index of *)
(* 5 or more.                                                              *)
C5_AtMostFiveTrades ==
    last.op = "match" =>
        /\ last.trade_count <= 5
        /\ \A k \in 1 .. Len(last.log) : last.log[k].widx < 5

(* five trades were returned and a crossing is left in the book *)
C5_Witness ==
    /\ last.op = "match"
    /\ last.trade_count = 5
    /\ Crossing(book)
    /\ AllPositive(book)

(* C6: from a book of positive quantities, calling match again and again   *)
(* on the book returned reaches a book with no crossing pair and stays     *)
(* there; from a book with no crossing pair a call returns no trade and a  *)
(* book with no crossing pair.                                             *)
C6_MatchingSettles ==
    /\ <>[](~Crossing(book))
    /\ [][~Crossing(book) => (last'.trade_count = 0 /\ ~Crossing(book'))]_vars

(* the crossings are gone after a second call that traded *)
C6_Witness ==
    /\ last.op = "match"
    /\ last.run >= 2
    /\ ~Crossing(book)

(* C7: on a book of positive quantities whose buys are all priced below    *)
(* all its sells, match returns no trade and the same counts, active       *)
(* entries and next_order_id; a second call on the result does the same.   *)
C7_NoCrossingNoChange ==
    (last.op = "match" /\ AllPositive(prev) /\ Apart(prev)) =>
        /\ last.trade_count = 0
        /\ SameActive(book, prev)
        /\ \A ts \in MatchTimes :
             /\ match_orders(book, ts).trade_count = 0
             /\ SameActive(match_orders(book, ts).order_book, book)

(* two buys below two sells were matched *)
C7_Witness ==
    /\ last.op = "match"
    /\ prev.buy_count = 2 /\ prev.sell_count = 2
    /\ AllPositive(prev) /\ Apart(prev)
    /\ last.trade_count = 0

(* C8: one buy (pb, qb) against one sell (ps, qs), pb >= ps, both          *)
(* quantities positive: one trade, at ps, of min(qb, qs); an order with a  *)
(* remainder stays, reduced by the trade; an order without is gone and its *)
(* side's count is one less.                                               *)
C8_OnePairOneTrade ==
    LET buy  == prev.buy_orders[0]
        sell == prev.sell_orders[0]
        q    == Min(buy.quantity, sell.quantity)
    IN  ( /\ last.op = "match"
          /\ prev.buy_count = 1 /\ prev.sell_count = 1
          /\ buy.quantity > 0 /\ sell.quantity > 0
          /\ buy.price >= sell.price ) =>
        /\ last.trade_count = 1
        /\ last.trades[0].price = sell.price
        /\ last.trades[0].quantity = q
        /\ IF buy.quantity > q
           THEN /\ book.buy_count = 1
                /\ book.buy_orders[0] = [buy EXCEPT !.quantity = buy.quantity - q]
           ELSE book.buy_count = 0
        /\ IF sell.quantity > q
           THEN /\ book.sell_count = 1
                /\ book.sell_orders[0] = [sell EXCEPT !.quantity = sell.quantity - q]
           ELSE book.sell_count = 0
        /\ book.next_order_id = prev.next_order_id

(* buy 100 x 5 against sell 90 x 3: one trade 90 x 3, buy left with 2,     *)
(* sell gone                                                               *)
C8_Witness ==
    /\ last.op = "match"
    /\ prev.buy_count = 1 /\ prev.sell_count = 1
    /\ prev.buy_orders[0].price = 100 /\ prev.buy_orders[0].quantity = 5
    /\ prev.sell_orders[0].price = 90 /\ prev.sell_orders[0].quantity = 3
    /\ last.trade_count = 1
    /\ last.trades[0].price = 90 /\ last.trades[0].quantity = 3
    /\ book.buy_count = 1 /\ book.buy_orders[0].quantity = 2
    /\ book.sell_count = 0

(* C9: after insertions alone, each side's count is the number of          *)
(* insertions into it that were accepted, and an insertion is accepted     *)
(* exactly when its side's count was below 10.                             *)
C9_CountIsAccepted ==
    /\ book.buy_count  = Cardinality({k \in 1 .. Len(issued) : issued[k].side})
    /\ book.sell_count = Cardinality({k \in 1 .. Len(issued) : ~issued[k].side})
    /\ last.op = "submit" =>
          (last.ok <=> SideCount(prev, last.order.side) < 10)

(* the tenth buy is accepted *)
C9_Witness ==
    /\ last.op = "submit" /\ last.ok /\ last.order.side
    /\ prev.buy_count = 9
    /\ book.buy_count = 10

(* C10: an insertion into a side that holds 10 orders reports failure and  *)
(* leaves every slot, both counts and next_order_id as they were.          *)
C10_FullSideRejects ==
    (last.op = "submit" /\ SideCount(prev, last.order.side) = 10) =>
        /\ ~last.ok
        /\ book = prev

(* a sell is refused by a full sell side *)
C10_Witness ==
    /\ last.op = "submit" /\ ~last.ok /\ ~last.order.side
    /\ prev.sell_count = 10
    /\ prev.buy_count >= 1

(* C11: an accepted insertion stores the order at the index of its side's  *)
(* count before the call, under the id next_order_id had then whatever id  *)
(* the caller sent, with the price, quantity, side, trader_id and          *)
(* timestamp submitted; that side's count and next_order_id grow by 1 and  *)
(* every entry that was active on either side is as it was.                *)
C11_InsertAppends ==
    (last.op = "submit" /\ last.ok) =>
        LET side == last.order.side
            idx  == SideCount(prev, side)
            slot == IF side THEN book.buy_orders[idx] ELSE book.sell_orders[idx]
        IN  /\ slot = [last.order EXCEPT !.order_id = prev.next_order_id]
            /\ SideCount(book, side) = idx + 1
            /\ SideCount(book, ~side) = SideCount(prev, ~side)
            /\ book.next_order_id = prev.next_order_id + 1
            /\ \A i \in Slots :
                 /\ i < prev.buy_count  => book.buy_orders[i] = prev.buy_orders[i]
                 /\ i < prev.sell_count => book.sell_orders[i] = prev.sell_orders[i]

(* a buy sent with order_id 99 is stored second on its side under id 3 *)
C11_Witness ==
    /\ last.op = "submit" /\ last.ok /\ last.order.side
    /\ last.order.order_id = 99
    /\ prev.buy_count = 1 /\ prev.sell_count = 1
    /\ book.buy_orders[1].order_id = 3
    /\ book.buy_count = 2

(* C12: when every order submitted has a quantity above 0, every active    *)
(* order of the book has a quantity above 0 after any sequence of insert,  *)
(* cancel and match; a match returns no order with nothing left.           *)
C12_ActiveArePositive == AllPositive(book)

(* a match filled the only sell and left the buy with a remainder *)
C12_Witness ==
    /\ last.op = "match"
    /\ last.trade_count = 1
    /\ prev.sell_count = 1 /\ book.sell_count = 0
    /\ prev.buy_count = 1 /\ book.buy_count = 1
    /\ book.buy_orders[0].quantity = 1
    /\ prev.buy_orders[0].quantity = 2

(* C13: on each side the active entries stand in the order they were      *)
(* inserted, their order_ids growing with the index; no order_id is active *)
(* twice, on one side or across the two; every active order_id is at       *)
(* least 1 and below next_order_id.                                        *)
C13_ActiveIdsOrdered ==
    /\ \A i, j \in Slots :
         /\ (i < j /\ j < book.buy_count) =>
               book.buy_orders[i].order_id < book.buy_orders[j].order_id
         /\ (i < j /\ j < book.sell_count) =>
               book.sell_orders[i].order_id < book.sell_orders[j].order_id
         /\ (i < book.buy_count /\ j < book.sell_count) =>
               book.buy_orders[i].order_id # book.sell_orders[j].order_id
    /\ \A i \in Slots :
         /\ i < book.buy_count =>
               /\ book.buy_orders[i].order_id >= 1
               /\ book.buy_orders[i].order_id < book.next_order_id
         /\ i < book.sell_count =>
               /\ book.sell_orders[i].order_id >= 1
               /\ book.sell_orders[i].order_id < book.next_order_id

(* the first of three buys was cancelled and the other two moved up *)
C13_Witness ==
    /\ last.op = "cancel" /\ last.ok
    /\ prev.buy_count = 3
    /\ book.buy_count = 2
    /\ book.buy_orders[0].order_id = 2
    /\ book.buy_orders[1].order_id = 3

(* C14: the book init_order_book produces, before any other call, has     *)
(* buy_count = 0, sell_count = 0 and next_order_id = 1.                    *)
C14_InitialBook ==
    last.op = "init" =>
        /\ book.buy_count = 0
        /\ book.sell_count = 0
        /\ book.next_order_id = 1

(* the book as init_order_book made it *)
C14_Witness ==
    /\ last.op = "init"
    /\ book = init_order_book
    /\ issued = << >>


(* the pre-match active orders of each side, each with the quantity the    *)
(* fills of the log left it *)
RemainingBuys(b, log) ==
    [k \in 1 .. b.buy_count |->
        [b.buy_orders[k - 1] EXCEPT
            !.quantity = @ - TakenFromBuy(log, Len(log) + 1, k - 1)]]

RemainingSells(b, log) ==
    [k \in 1 .. b.sell_count |->
        [b.sell_orders[k - 1] EXCEPT
            !.quantity = @ - TakenFromSell(log, Len(log) + 1, k - 1)]]

Survivors(orders) == SelectSeq(orders, LAMBDA o : o.quantity > 0)

(* C15: the book match_orders returns is a stable compaction: on each side *)
(* its active sequence is the pre-match active sequence, each order with   *)
(* the quantity this call's fills left it, restricted to the orders whose  *)
(* remaining quantity is positive, in the original order; the count of the *)
(* side is the length of that sequence.                                    *)
C15_StableCompaction ==
    last.op = "match" =>
        /\ ActiveBuys(book) = Survivors(RemainingBuys(prev, last.log))
        /\ ActiveSells(book) = Survivors(RemainingSells(prev, last.log))
        /\ book.buy_count = Len(Survivors(RemainingBuys(prev, last.log)))
        /\ book.sell_count = Len(Survivors(RemainingSells(prev, last.log)))

(* the first of two buys held quantity 0 from the start, the second is    *)
(* partly filled and moves from slot 1 to slot 0; the sell is filled and  *)
(* leaves its side empty                                                   *)
C15_Witness ==
    /\ last.op = "match"
    /\ last.trade_count = 1
    /\ prev.buy_count = 2
    /\ prev.buy_orders[0].quantity = 0
    /\ prev.buy_orders[1].quantity = 2
    /\ book.buy_count = 1
    /\ book.buy_orders[0].order_id = 2
    /\ book.buy_orders[0].quantity = 1
    /\ prev.sell_count = 1
    /\ book.sell_count = 0

(* the position in the log of the first trade of the buy at slot buy_idx   *)
FirstTradeOf(log, buy_idx) ==
    CHOOSE s \in 1 .. Len(log) :
        /\ log[s].buy_idx = buy_idx
        /\ \A t \in 1 .. (s - 1) : log[t].buy_idx # buy_idx

(* the order with this id is no longer active in b *)
Gone(b, order_id) ==
    \A i \in Slots : /\ i < b.buy_count  => b.buy_orders[i].order_id # order_id
                     /\ i < b.sell_count => b.sell_orders[i].order_id # order_id

(* C16: time priority among sells.  Whenever, in one call of match_orders, *)
(* a buy trades with the sell at slot j, every active sell at a slot k < j *)
(* that was priced at or below the buy and had quantity left when the scan *)
(* of that buy began (that is, before the buy's first trade) has no        *)
(* quantity left at the end of the call and is not in the returned book.   *)
C16_SellTimePriority ==
    last.op = "match" =>
        \A m \in 1 .. Len(last.log) : \A k \in Slots :
            LET b == last.log[m].buy_idx
                j == last.log[m].sell_idx
                atStart == prev.sell_orders[k].quantity
                           - TakenFromSell(last.log, FirstTradeOf(last.log, b), k)
                atEnd   == prev.sell_orders[k].quantity
                           - TakenFromSell(last.log, Len(last.log) + 1, k)
            IN  (/\ k < j
                 /\ k < prev.sell_count
                 /\ prev.sell_orders[k].price <= prev.buy_orders[b].price
                 /\ atStart > 0)
                => (atEnd = 0 /\ Gone(book, prev.sell_orders[k].order_id))

(* the second buy finds the first sell half taken by the first buy, takes  *)
(* the rest of it, and only then trades with the second sell               *)
C16_Witness ==
    /\ last.op = "match"
    /\ Len(last.log) = 3
    /\ last.log[1].buy_idx = 0 /\ last.log[1].sell_idx = 0
    /\ last.log[2].buy_idx = 1 /\ last.log[2].sell_idx = 0
    /\ last.log[3].buy_idx = 1 /\ last.log[3].sell_idx = 1
    /\ prev.sell_orders[0].quantity = 2
    /\ Gone(book, prev.sell_orders[0].order_id)

(* C17: time priority among buys.  Whenever, in one call of match_orders,  *)
(* the buy at slot i' trades with a sell, every active buy at a slot       *)
(* i < i' whose price is at or above the price of that sell has no         *)
(* quantity left at the end of the call and is not in the returned book.   *)
C17_BuyTimePriority ==
    last.op = "match" =>
        \A m \in 1 .. Len(last.log) : \A i \in Slots :
            LET later == last.log[m].buy_idx
                s     == last.log[m].sell_idx
                atEnd == prev.buy_orders[i].quantity
                         - TakenFromBuy(last.log, Len(last.log) + 1, i)
            IN  (/\ i < later
                 /\ i < prev.buy_count
                 /\ prev.sell_orders[s].price <= prev.buy_orders[i].price)
                => (atEnd = 0 /\ Gone(book, prev.buy_orders[i].order_id))

(* a sell at price 1 for 2 serves the buy at slot 0 (price 1) in full and  *)
(* then the buy at slot 1 (price 2)                                        *)
C17_Witness ==
    /\ last.op = "match"
    /\ Len(last.log) = 2
    /\ last.log[1].buy_idx = 0 /\ last.log[1].sell_idx = 0
    /\ last.log[2].buy_idx = 1 /\ last.log[2].sell_idx = 0
    /\ prev.buy_orders[0].price = 1
    /\ prev.buy_orders[1].price = 2
    /\ prev.sell_orders[0].price = 1
    /\ Gone(book, prev.buy_orders[0].order_id)

(* C18: when match_orders returns fewer than 5 trades for a book whose     *)
(* active orders all have positive quantity, no active buy of the returned *)
(* book is priced at or above an active sell of it; a crossing survives a  *)
(* call only if the call wrote 5 trades.                                   *)
C18_CrossingNeedsCap ==
    (last.op = "match" /\ AllPositive(prev) /\ last.trade_count < TradeCap)
        => ~Crossing(book)

(* a crossing book trades below the cap and leaves orders on both sides    *)
C18_Witness ==
    /\ last.op = "match"
    /\ AllPositive(prev)
    /\ Crossing(prev)
    /\ last.trade_count >= 2
    /\ last.trade_count < TradeCap
    /\ book.buy_count >= 1
    /\ book.sell_count >= 1
    /\ ~Crossing(book)

(* the total quantity of a sequence of orders *)
RECURSIVE SumQuantity(_)
SumQuantity(orders) ==
    IF orders = << >> THEN 0
    ELSE Head(orders).quantity + SumQuantity(Tail(orders))

(* the total quantity of the first n trades of a trades array *)
RECURSIVE SumTrades(_, _)
SumTrades(trades, n) ==
    IF n = 0 THEN 0 ELSE SumTrades(trades, n - 1) + trades[n - 1].quantity

(* C19: match_orders conserves quantity.  The quantities of the returned   *)
(* trades add up to what left the buy side (active quantity before minus   *)
(* active quantity after) and to what left the sell side; and no order     *)
(* ever holds more than it held before: not at any fill of the call, and   *)
(* not in the returned book.                                               *)
C19_QuantityConserved ==
    last.op = "match" =>
        /\ SumTrades(last.trades, last.trade_count)
             = SumQuantity(ActiveBuys(prev)) - SumQuantity(ActiveBuys(book))
        /\ SumTrades(last.trades, last.trade_count)
             = SumQuantity(ActiveSells(prev)) - SumQuantity(ActiveSells(book))
        /\ \A m \in 1 .. Len(last.log) :
             /\ last.log[m].buy_qty <= prev.buy_orders[last.log[m].buy_idx].quantity
             /\ last.log[m].sell_qty <= prev.sell_orders[last.log[m].sell_idx].quantity
             /\ \A n \in 1 .. (m - 1) :
                  /\ last.log[n].buy_idx = last.log[m].buy_idx
                       => last.log[m].buy_qty <= last.log[n].buy_qty
                  /\ last.log[n].sell_idx = last.log[m].sell_idx
                       => last.log[m].sell_qty <= last.log[n].sell_qty
        /\ \A i \in Slots :
             /\ i < book.buy_count =>
                  \E k \in Slots : /\ k < prev.buy_count
                                   /\ prev.buy_orders[k].order_id = book.buy_orders[i].order_id
                                   /\ book.buy_orders[i].quantity <= prev.buy_orders[k].quantity
             /\ i < book.sell_count =>
                  \E k \in Slots : /\ k < prev.sell_count
                                   /\ prev.sell_orders[k].order_id = book.sell_orders[i].order_id
                                   /\ book.sell_orders[i].quantity <= prev.sell_orders[k].quantity

(* three trades of 1 each: buys of 2 and 2 against sells of 1 and 2 leave  *)
(* the second buy with 1                                                   *)
C19_Witness ==
    /\ last.op = "match"
    /\ last.trade_count = 3
    /\ SumTrades(last.trades, last.trade_count) = 3
    /\ SumQuantity(ActiveBuys(prev)) = 4
    /\ SumQuantity(ActiveSells(prev)) = 3
    /\ book.buy_count = 1
    /\ book.buy_orders[0].quantity = 1
    /\ book.sell_count = 0

(* C20: the subtraction of the traded amount never goes below 0.  At every *)
(* fill the amount traded is at most the quantity the buy holds and at     *)
(* most the quantity the sell holds, so neither difference wraps: what the *)
(* fills leave of every order, and every quantity stored in the returned   *)
(* arrays, is 0 or more.                                                   *)
C20_NoUnderflow ==
    last.op = "match" =>
        /\ \A m \in 1 .. Len(last.log) :
             /\ last.log[m].trade.quantity <= last.log[m].buy_qty
             /\ last.log[m].trade.quantity <= last.log[m].sell_qty
             /\ sub_u64(last.log[m].buy_qty, last.log[m].trade.quantity) >= 0
             /\ sub_u64(last.log[m].sell_qty, last.log[m].trade.quantity) >= 0
        /\ \A k \in 1 .. prev.buy_count :
             RemainingBuys(prev, last.log)[k].quantity >= 0
        /\ \A k \in 1 .. prev.sell_count :
             RemainingSells(prev, last.log)[k].quantity >= 0
        /\ \A i \in Slots : /\ book.buy_orders[i].quantity >= 0
                            /\ book.sell_orders[i].quantity >= 0

(* the first fill takes all of a buy of 1 from a sell of 2 (1 - 1 = 0),    *)
(* the second takes the sell's last 1 from a buy of 2 (1 - 1 = 0)          *)
C20_Witness ==
    /\ last.op = "match"
    /\ Len(last.log) = 2
    /\ last.log[1].buy_qty = 1 /\ last.log[1].sell_qty = 2
    /\ last.log[1].trade.quantity = 1
    /\ last.log[2].buy_qty = 2 /\ last.log[2].sell_qty = 1
    /\ last.log[2].trade.quantity = 1
    /\ last.log[2].sell_idx = last.log[1].sell_idx
    /\ book.buy_count = 1 /\ book.buy_orders[0].quantity = 1

(* the active orders of both sides, as a set *)
ActiveSet(b) ==
    {b.buy_orders[i] : i \in {s \in Slots : s < b.buy_count}}
      \cup {b.sell_orders[i] : i \in {s \in Slots : s < b.sell_count}}

(* C21: match_orders changes only quantities and membership: it keeps      *)
(* next_order_id, raises no count, and every active order of the returned  *)
(* book is an active order of the same side of the book before with, at    *)
(* most, another quantity.  Insert and cancel keep the quantity (and every *)
(* other field) of each order that was and remains in the book.            *)
C21_MatchFrame ==
    /\ last.op = "match" =>
         /\ book.next_order_id = prev.next_order_id
         /\ book.buy_count <= prev.buy_count
         /\ book.sell_count <= prev.sell_count
         /\ \A i \in Slots :
              /\ i < book.buy_count =>
                   \E k \in Slots :
                      /\ k < prev.buy_count
                      /\ book.buy_orders[i]
                           = [prev.buy_orders[k] EXCEPT
                                !.quantity = book.buy_orders[i].quantity]
              /\ i < book.sell_count =>
                   \E k \in Slots :
                      /\ k < prev.sell_count
                      /\ book.sell_orders[i]
                           = [prev.sell_orders[k] EXCEPT
                                !.quantity = book.sell_orders[i].quantity]
    /\ last.op \in {"submit", "cancel"} =>
         \A o \in ActiveSet(prev) : \A n \in ActiveSet(book) :
            n.order_id = o.order_id => n = o

(* a match leaves a sell of 2 with 1, every other field as it was *)
C21_Witness ==
    /\ last.op = "match"
    /\ last.trade_count = 1
    /\ prev.sell_count = 1 /\ book.sell_count = 1
    /\ prev.sell_orders[0].quantity = 2
    /\ book.sell_orders[0]
         = [prev.sell_orders[0] EXCEPT !.quantity = 1]
    /\ prev.buy_count = 1 /\ book.buy_count = 0

(* C22: cancellation is permanent.  Once a cancel has reported an order_id *)
(* found, then in every later step, whatever was inserted, cancelled or    *)
(* matched in between: the id is in no active slot; a cancel naming it     *)
(* reports false and returns the book it was given; and no fill of a match *)
(* takes from an order with that id.                                       *)
C22_CancelIsPermanent ==
    [][\A id \in cancelled :
          /\ Gone(book', id)
          /\ (last'.op = "cancel" /\ last'.order_id = id)
                => (~last'.ok /\ book' = book)
          /\ last'.op = "match" =>
                \A m \in 1 .. Len(last'.log) :
                   /\ book.buy_orders[last'.log[m].buy_idx].order_id # id
                   /\ book.sell_orders[last'.log[m].sell_idx].order_id # id
      ]_vars

(* the order with id 2 was cancelled; a match then moved the order with id *)
(* 3 down over its slot, and a second cancel of id 2 by its owner reports  *)
(* false and changes nothing                                               *)
C22_Witness ==
    /\ last.op = "cancel"
    /\ last.order_id = 2
    /\ 2 \in cancelled
    /\ ~last.ok
    /\ book = prev
    /\ Len(issued) = 3
    /\ \E i \in Slots : \E side \in BOOLEAN :
          LET o == IF side THEN book.buy_orders[i] ELSE book.sell_orders[i]
          IN  /\ i >= SideCount(book, side)
              /\ o.order_id = 2
              /\ o.trader_id = last.trader_id

(* C23: capacity is never exceeded.  Whatever is inserted, cancelled and   *)
(* matched, on a book filled to capacity included, both counts stay in     *)
(* 0 .. 10; an accepted insertion wrote a slot below 10; a found cancel    *)
(* lowered a count that was above 0; every fill of a match read slots      *)
(* below 10 and wrote a trade below index 5.                               *)
C23_WithinCapacity ==
    /\ book.buy_count \in 0 .. Capacity
    /\ book.sell_count \in 0 .. Capacity
    /\ (last.op = "submit" /\ last.ok) =>
          SideCount(prev, last.order.side) \in Slots
    /\ (last.op = "cancel" /\ last.ok) =>
          /\ prev.buy_count + prev.sell_count >= 1
          /\ book.buy_count + book.sell_count
               = prev.buy_count + prev.sell_count - 1
    /\ last.op = "match" =>
          \A m \in 1 .. Len(last.log) :
             /\ last.log[m].buy_idx \in Slots
             /\ last.log[m].sell_idx \in Slots
             /\ last.log[m].widx \in 0 .. (TradeCap - 1)

(* both sides hold 10 orders and an insertion has just been refused *)
C23_Witness ==
    /\ book.buy_count = Capacity
    /\ book.sell_count = Capacity
    /\ last.op = "submit"
    /\ ~last.ok
    /\ cancelled # {}

(* content a slot at or beyond the count may hold: an order with positive  *)
(* quantity, under an id and a trader that cancels name                    *)
StaleOrders ==
    [order_id : {1, 2}, price : {2}, quantity : {2}, side : {TRUE},
     trader_id : Traders, timestamp : OrderTimes]

(* b with every slot at or beyond its side's count overwritten: the buy    *)
(* side holds o priced 2, the sell side holds o priced 1, so that the two  *)
(* would cross each other and every active order were they scanned         *)
WithStale(b, o) ==
    [b EXCEPT
       !.buy_orders  = [i \in Slots |-> IF i < b.buy_count THEN @[i]
                                        ELSE [o EXCEPT !.price = 2]],
       !.sell_orders = [i \in Slots |-> IF i < b.sell_count THEN @[i]
                                        ELSE [o EXCEPT !.price = 1]]]

(* C24: slots at or beyond the count are ignored.  The operation just      *)
(* performed, applied instead to a book with the same counts,              *)
(* next_order_id and active entries but other content in every slot at or  *)
(* beyond the counts, reports the same outcome (success, found, trades and *)
(* trade_count) and returns a book with the same counts, next_order_id and *)
(* active entries.                                                         *)
C24_StaleSlotsIgnored ==
    \A o \in StaleOrders :
        LET twin == WithStale(prev, o)
        IN  /\ SameActive(twin, prev)
            /\ last.op = "submit" =>
                 LET r == submit_order(last.order, twin)
                 IN  r.ok = last.ok /\ SameActive(r.book, book)
            /\ last.op = "cancel" =>
                 LET r == cancel_order(twin, last.order_id, last.trader_id)
                 IN  r.found = last.ok /\ SameActive(r.book, book)
            /\ last.op = "match" =>
                 LET r == match_orders(twin, last.timestamp)
                 IN  /\ r.trades = last.trades
                     /\ r.trade_count = last.trade_count
                     /\ SameActive(r.order_book, book)

(* a cancel of id 2 by trader 1 finds nothing in a book whose slots beyond *)
(* the count still hold the order with id 2 of trader 1 and a positive     *)
(* quantity, a copy a compaction and a shift left behind                   *)
C24_Witness ==
    /\ last.op = "cancel"
    /\ ~last.ok
    /\ last.order_id = 2 /\ last.trader_id = 1
    /\ book = prev
    /\ \E i \in Slots : /\ i >= prev.buy_count
                        /\ prev.buy_orders[i].order_id = 2
                        /\ prev.buy_orders[i].trader_id = 1
                        /\ prev.buy_orders[i].quantity > 0

(* C25: cancel has a uniform scan cost.  Every cancel, whether it finds    *)
(* the order on the buy side, on the sell side, at whatever slot, or not   *)
(* at all, evaluates the (order_id, trader_id) comparison once per slot of *)
(* each side: 20 times.                                                    *)
C25_CancelScansAll ==
    last.op = "cancel" => last.iters = 2 * Capacity

(* the order is found in the first buy slot, with another buy and a sell   *)
(* behind it, and 20 comparisons were made all the same                    *)
C25_Witness ==
    /\ last.op = "cancel"
    /\ last.ok
    /\ prev.buy_count = 2
    /\ prev.sell_count = 1
    /\ prev.buy_orders[0].order_id = last.order_id
    /\ last.iters = 20

(* C26: every scan of match_orders and of compaction iterates capacity     *)
(* times whatever the book holds: 10 buy slots, 10 sell slots for each of  *)
(* the 10 buy slots, and 10 slots in each of the two compaction passes, so *)
(* every call executes the same 130 loop iterations.                       *)
C26_UniformIterations ==
    last.op = "match" =>
        last.iters = Capacity + Capacity * Capacity + 2 * Capacity

(* C27: the on-chain program serializes the operations on a trading pair.  *)
(* At most one computation is in flight; no two computations in flight     *)
(* were given the same stored order book; and a callback that stores an    *)
(* order book replaces the very order book its computation was given, not  *)
(* one stored since.                                                       *)
C27_OneInFlight ==
    /\ Cardinality(chain.inflight) <= 1
    /\ \A c, d \in chain.inflight :
          (c # d /\ c.executed /\ d.executed) => c.read # d.read
    /\ (chain.result = "Ok" /\ chain.done.ix \in {"submit_order", "cancel_order"})
          => chain.done.read = chain.before.pair.order_book

(* C28: after a successful match_orders callback the order book stored in  *)
(* the trading pair is the post-match order book the computation returned. *)
C28_MatchStoresBook ==
    (chain.done.ix = "match_orders" /\ chain.result = "Ok") =>
        chain.pair.order_book.plain = chain.done.output.value.plain.order_book

(* C29: the circuit validates the order: a submit_order computation given  *)
(* an order of quantity 0 or of price 0 returns the order book with the    *)
(* active entries it was given.                                            *)
C29_OrdersValidated ==
    \A c \in chain.inflight :
        (/\ c.ix = "submit_order"
         /\ c.executed
         /\ c.output.kind = "Success"
         /\ (c.order.quantity = 0 \/ c.order.price = 0))
        => SameActive(c.output.value.plain, c.read.plain)

(* C30: when the output of a computation is not Success, its callback      *)
(* returns AbortedComputation and the trading pair is as before:           *)
(* order_book, order_book_nonce and total_orders keep their values and no  *)
(* event is emitted.                                                       *)
C30_AbortLeavesPair ==
    (chain.done.ix # "none" /\ chain.done.output.kind # "Success") =>
        /\ chain.result = "AbortedComputation"
        /\ chain.pair.order_book = chain.before.pair.order_book
        /\ chain.pair.order_book_nonce = chain.before.pair.order_book_nonce
        /\ chain.pair.total_orders = chain.before.pair.total_orders
        /\ chain.events = chain.before.events

(* a submit_order computation failed after an earlier one had been stored; *)
(* its callback aborted                                                    *)
C30_Witness ==
    /\ chain.done.ix = "submit_order"
    /\ chain.done.output.kind = "Failure"
    /\ chain.result = "AbortedComputation"
    /\ chain.pair.total_orders = 3
    /\ chain.pair.order_book_nonce = 2
    /\ Len(chain.events) = 4

(* Vocabulary of settlement: the last execute_trade *)
Traded == settlement.result # "none"

Overflows == settlement.call.trade_price * settlement.call.trade_quantity > U64_MAX

NothingMoved == settlement.transfers = << >> /\ settlement.accounts = settlement.before

AccountsPass ==
    \A a \in TokenAccountNames :
        settlement.before[a].data_ok /\ settlement.before[a].owner = RightOwner(a)

(* C31, as stated: an execute_trade whose price x quantity exceeds the     *)
(* largest u64 fails with MathOverflow and transfers nothing; one whose    *)
(* price or quantity is 0 fails with InvalidPrice or InvalidQuantity and   *)
(* transfers nothing.                                                      *)
C31_AsStated ==
    Traded =>
        /\ Overflows => settlement.result = "MathOverflow" /\ NothingMoved
        /\ (settlement.call.trade_price = 0 \/ settlement.call.trade_quantity = 0)
               => /\ settlement.result \in {"InvalidPrice", "InvalidQuantity"}
                  /\ NothingMoved

(* C31, amended: an execute_trade whose price x quantity exceeds the       *)
(* largest u64 always fails and transfers nothing; the failure is          *)
(* MathOverflow when the four token accounts deserialize and belong to     *)
(* the buyer and the seller, and the failure of that earlier account       *)
(* check otherwise.  One whose price is 0 fails with InvalidPrice, one     *)
(* whose price is positive and quantity 0 with InvalidQuantity, and        *)
(* neither transfers anything.  A successful call moves exactly price x    *)
(* quantity, which fits a u64, from the buyer's quote account.             *)
C31_OverflowChecked ==
    Traded =>
        /\ Overflows =>
              /\ NothingMoved
              /\ AccountsPass => settlement.result = "MathOverflow"
              /\ ~AccountsPass => settlement.result \in
                                    {"AccountDidNotDeserialize", "InvalidTokenAccount"}
        /\ settlement.call.trade_price = 0
              => settlement.result = "InvalidPrice" /\ NothingMoved
        /\ (settlement.call.trade_price > 0 /\ settlement.call.trade_quantity = 0)
              => settlement.result = "InvalidQuantity" /\ NothingMoved
        /\ settlement.result = "Ok" =>
              /\ ~Overflows
              /\ settlement.transfers[1].amount =
                    settlement.call.trade_price * settlement.call.trade_quantity
              /\ settlement.before["buyer_quote"].amount
                    - settlement.accounts["buyer_quote"].amount
                 = settlement.call.trade_price * settlement.call.trade_quantity

(* a funded buyer and seller with sound accounts ask for a trade whose     *)
(* value overflows, and are refused with MathOverflow                      *)
C31_Witness ==
    /\ Traded
    /\ Overflows
    /\ AccountsPass
    /\ settlement.before["buyer_quote"].amount = U64_MAX
    /\ settlement.before["seller_base"].amount >= settlement.call.trade_quantity
    /\ settlement.result = "MathOverflow"
    /\ NothingMoved
====
